---- MODULE Spec2Model ----
(***************************************************************************)
(* Nearest-neighbour matching of DocumentArrays                            *)
(* (jina/types/arrays/neural_ops.py, DocumentArrayNeuralOpsMixin).         *)
(*                                                                         *)
(* Documents live in a store indexed by handle; a DocumentArray is a       *)
(* sequence of handles, so two arrays may hold the same Document.          *)
(* Embeddings are points on a line and the metric is |x - y|.              *)
(* An optional argument is a tuple: <<>> is Python's None, <<v>> is v.     *)
(* Unnormalised scores are raw distances; normalised scores are counted    *)
(* in units of 1/Scale, so that Scale stands for 1.0.                      *)
(***************************************************************************)
EXTENDS Integers, Sequences, FiniteSets, TLC

VARIABLES
    da,        \* DocumentArray A: sequence of document handles
    db,        \* DocumentArray B
    ids,       \* handle -> Document.id
    embs,      \* handle -> Document.embedding
    matches,   \* handle -> Document.matches (sequence of match entries)
    call,      \* arguments of the last match() call, <<>> before the first
    outcome,   \* how the last call ended
    ret,       \* (dist, idx) handed to the assembling loop by the last call
    tieOrder   \* order numpy leaves exactly tied entries in: "low" or "high"

vars == <<da, db, ids, embs, matches, call, outcome, ret, tieOrder>>

----------------------------------------------------------------------------
(* Bounds *)

MaxEmb == 2      \* embeddings are 0..MaxEmb
MaxLimit == 2    \* largest limit passed to match()
MaxBatch == 2    \* largest batch_size passed to match()
MaxLen == 2      \* largest target array of the single-call specification

----------------------------------------------------------------------------
(* Helpers *)

Min2(a, b) == IF a <= b THEN a ELSE b

RECURSIVE Gcd(_, _)
Gcd(a, b) == IF b = 0 THEN a ELSE Gcd(b, a % b)

RECURSIVE LcmUpTo(_)
LcmUpTo(n) == IF n <= 1 THEN 1 ELSE LET l == LcmUpTo(n - 1) IN (l * n) \div Gcd(l, n)

\* 1.0 in score units: every quotient (v - min) / (max - min) is exact.
Scale == LcmUpTo(MaxEmb)

\* np.inf: above every raw distance and every normalised score.
Inf == Scale + MaxEmb + 1

SeqMin(s) == CHOOSE v \in {s[j] : j \in DOMAIN s} : \A j \in DOMAIN s : v <= s[j]
SeqMax(s) == CHOOSE v \in {s[j] : j \in DOMAIN s} : \A j \in DOMAIN s : v >= s[j]

RemoveAt(s, p) == [j \in 1..(Len(s) - 1) |-> IF j < p THEN s[j] ELSE s[j + 1]]

\* Position of the smallest .d of a non-empty sequence of (d, i) pairs;
\* among exactly tied entries the lowest or the highest position.
ArgMin(ps, order) ==
    LET tied == {j \in DOMAIN ps : \A t \in DOMAIN ps : ps[j].d <= ps[t].d}
    IN IF order = "low"
       THEN CHOOSE j \in tied : \A t \in tied : j <= t
       ELSE CHOOSE j \in tied : \A t \in tied : j >= t

\* The k smallest pairs of ps in ascending order of .d.
RECURSIVE Smallest(_, _, _)
Smallest(ps, k, order) ==
    IF k <= 0 \/ ps = <<>> THEN <<>>
    ELSE LET p == ArgMin(ps, order)
         IN <<ps[p]>> \o Smallest(RemoveAt(ps, p), k - 1, order)

Pairs(dist, idx) == [j \in DOMAIN dist |-> [d |-> dist[j], i |-> idx[j]]]
Dists(ps) == [j \in DOMAIN ps |-> ps[j].d]
Inds(ps) == [j \in DOMAIN ps |-> ps[j].i]

----------------------------------------------------------------------------
(* jina.math: distance, top-k, normalisation, running best-k *)

\* cdist(x_mat, y_mat, metric) for one row of x_mat: distance to every y.
cdist(x, y_mat) ==
    [j \in DOMAIN y_mat |-> IF x >= y_mat[j] THEN x - y_mat[j] ELSE y_mat[j] - x]

\* top_k(values, k, descending=False) for one row: the k smallest values and
\* their 0-based columns, ascending, ties in column order, k clamped.
top_k(values, k) ==
    LET ps == Smallest([j \in DOMAIN values |-> [d |-> values[j], i |-> j - 1]],
                       Min2(k, Len(values)), "low")
    IN [dist |-> Dists(ps), idx |-> Inds(ps)]

\* minmax_normalize(x, t_range, x_range) for one row, in units of 1/Scale;
\* x_range = <<>> takes the range from x itself.
minmax_normalize(x, t_range, x_range) ==
    LET a == t_range[1]
        b == t_range[2]
        min_d == IF x_range # <<>> THEN x_range[1] ELSE SeqMin(x)
        max_d == IF x_range # <<>> THEN x_range[2] ELSE SeqMax(x)
    IN [j \in DOMAIN x |->
           IF max_d = min_d THEN a * Scale
           ELSE a * Scale + ((b - a) * (x[j] - min_d) * Scale) \div (max_d - min_d)]

\* update_rows_x_mat_best for one row: the k smallest of the running best
\* followed by the new candidates.
update_rows_x_mat_best(x_mat_best, x_inds_best, x_mat, x_inds, k, order) ==
    LET ps == Smallest(Pairs(x_mat_best, x_inds_best) \o Pairs(x_mat, x_inds), k, order)
    IN [dist |-> Dists(ps), idx |-> Inds(ps)]

----------------------------------------------------------------------------
(* The two matchers; one row of the result per source embedding *)

\* _match with top_k(..., descending=True): the farthest targets.
_match_Descending(x_mat, y_mat, limit, normalization) ==
    LET row(r) ==
            LET dists == cdist(x_mat[r], y_mat)
                tk == top_k([j \in DOMAIN dists |-> Inf - dists[j]],
                            Min2(limit, Len(y_mat)))
                far == [j \in DOMAIN tk.dist |-> Inf - tk.dist[j]]
            IN IF normalization # <<>>
               THEN [dist |-> minmax_normalize(far, normalization,
                                               <<SeqMin(dists), SeqMax(dists)>>),
                     idx |-> tk.idx]
               ELSE [dist |-> far, idx |-> tk.idx]
        rows == [r \in DOMAIN x_mat |-> row(r)]
    IN [dist |-> [r \in DOMAIN x_mat |-> rows[r].dist],
        idx |-> [r \in DOMAIN x_mat |-> rows[r].idx]]

\* _match: the whole target at once.  normalization uses the range of the
\* untrimmed distance row.
_match(x_mat, y_mat, limit, normalization) ==
    LET row(r) ==
            LET dists == cdist(x_mat[r], y_mat)
                tk == top_k(dists, Min2(limit, Len(y_mat)))
            IN IF normalization # <<>>
               THEN [dist |-> minmax_normalize(tk.dist, normalization,
                                               <<SeqMin(dists), SeqMax(dists)>>),
                     idx |-> tk.idx]
               ELSE tk
        rows == [r \in DOMAIN x_mat |-> row(r)]
    IN [dist |-> [r \in DOMAIN x_mat |-> rows[r].dist],
        idx |-> [r \in DOMAIN x_mat |-> rows[r].idx]]

\* batch_generator: the chunks of y_mat with their start offsets.
RECURSIVE batch_generator(_, _, _)
batch_generator(y_mat, n_batch, i) ==
    IF i >= Len(y_mat) THEN <<>>
    ELSE <<[y_mat |-> SubSeq(y_mat, i + 1, Min2(i + n_batch, Len(y_mat))), i |-> i]>>
         \o batch_generator(y_mat, n_batch, i + n_batch)

\* The body of the loop over the batches, for one row: top-k of the batch,
\* normalised over the retained values, merged into the running best.
RECURSIVE OnlineLoop(_, _, _, _, _, _)
OnlineLoop(x, batches, top, limit, normalization, order) ==
    IF batches = <<>> THEN top
    ELSE LET y_batch == Head(batches)
             tk == top_k(cdist(x, y_batch.y_mat), limit)
             dists == IF normalization # <<>>
                      THEN minmax_normalize(tk.dist, normalization, <<>>)
                      ELSE tk.dist
             inds == [j \in DOMAIN tk.idx |-> y_batch.i + tk.idx[j]]
         IN OnlineLoop(x, Tail(batches),
                       update_rows_x_mat_best(top.dist, top.idx, dists, inds, limit, order),
                       limit, normalization, order)

\* _match_online: running best-k over the batches, then a sort of each row.
_match_online(x_mat, y_mat, limit, normalization, batch_size, order) ==
    LET row(r) ==
            LET top == OnlineLoop(x_mat[r], batch_generator(y_mat, batch_size, 0),
                                  [dist |-> [j \in 1..limit |-> Inf],
                                   idx |-> [j \in 1..limit |-> 0]],
                                  limit, normalization, order)
                ps == Smallest(Pairs(top.dist, top.idx), limit, order)
            IN [dist |-> Dists(ps), idx |-> Inds(ps)]
        rows == [r \in DOMAIN x_mat |-> row(r)]
    IN [dist |-> [r \in DOMAIN x_mat |-> rows[r].dist],
        idx |-> [r \in DOMAIN x_mat |-> rows[r].idx]]

----------------------------------------------------------------------------
(* match(): validation, dispatch and the loop that rebuilds the matches *)

Coll(name) == IF name = "A" THEN da ELSE db

\* DocumentArray.embeddings
Embeddings(arr) == [j \in DOMAIN arr |-> embs[arr[j]]]

\* `d.id in lhv`
IdsOf(arr) == {ids[arr[j]] : j \in DOMAIN arr}

NoRet == [dist |-> <<>>, idx |-> <<>>]

\* The Document appended for target offset _id: an id-only stand-in under
\* only_id, else rhv[_id]; a Document whose id is in lhv is copied and loses
\* its matches, any other keeps the matches it holds (cur).
Resolve_Shared(lhv, rhv, _id, only_id, cur) ==
    LET h == rhv[_id + 1]
    IN IF only_id
       THEN [id |-> ids[h], emb |-> <<>>, nested |-> 0]
       ELSE [id |-> ids[h], emb |-> <<embs[h]>>, nested |-> Len(cur[h])]
Resolve(lhv, rhv, _id, only_id, cur) ==
    LET h == rhv[_id + 1]
    IN IF only_id
       THEN [id |-> ids[h], emb |-> <<>>, nested |-> 0]
       ELSE [id |-> ids[h], emb |-> <<embs[h]>>,
             nested |-> IF ids[h] \in IdsOf(lhv) THEN 0 ELSE Len(cur[h])]

\* _limit = len(rhv) if limit is None else limit + (1 if exclude_self else 0)
EffLimit_NotInflated(a, rhv) ==
    IF a.limit = <<>> THEN Len(rhv) ELSE a.limit[1]
EffLimit(a, rhv) ==
    IF a.limit = <<>> THEN Len(rhv)
    ELSE a.limit[1] + (IF a.exclude_self THEN 1 ELSE 0)

\* d.id == _q.id and exclude_self
Skip_StandInsKept(d, _q, a) == d.id = ids[_q] /\ a.exclude_self /\ ~a.only_id
Skip(d, _q, a) == d.id = ids[_q] /\ a.exclude_self

\* limit or _limit
StopAt_Inflated(a, rhv) == EffLimit(a, rhv)
StopAt(a, rhv) == IF a.limit # <<>> THEN a.limit[1] ELSE EffLimit(a, rhv)

\* The inner loop over zip(_ids, _dists) of one source Document _q, from
\* position j with the matches appended so far.
RECURSIVE AppendMatches(_, _, _, _, _, _, _, _)
AppendMatches(_q, lhv, rhv, _ids, _dists, a, cur, j) ==
    IF j > Len(_ids) THEN cur[_q]
    ELSE LET d == Resolve(lhv, rhv, _ids[j], a.only_id, cur)
         IN IF Skip(d, _q, a)
            THEN AppendMatches(_q, lhv, rhv, _ids, _dists, a, cur, j + 1)
            ELSE LET m == [id |-> d.id, emb |-> d.emb, nested |-> d.nested,
                           score |-> _dists[j]]
                     next == [cur EXCEPT ![_q] = Append(@, m)]
                 IN IF Len(next[_q]) >= StopAt(a, rhv)
                    THEN next[_q]
                    ELSE AppendMatches(_q, lhv, rhv, _ids, _dists, a, next, j + 1)

\* _q.matches.clear()
Cleared_Kept(cur, _q) == cur
Cleared(cur, _q) == [cur EXCEPT ![_q] = <<>>]

\* The outer loop over zip(lhv, idx, dist), from row r: clear, then rebuild.
RECURSIVE Assemble(_, _, _, _, _, _)
Assemble(lhv, rhv, res, a, cur, r) ==
    IF r > Len(lhv) THEN cur
    ELSE LET _q == lhv[r]
             cleared == Cleared(cur, _q)
             built == AppendMatches(_q, lhv, rhv, res.idx[r], res.dist[r], a, cleared, 1)
         IN Assemble(lhv, rhv, res, a, [cleared EXCEPT ![_q] = built], r + 1)

BadLimit(a) == a.limit # <<>> /\ a.limit[1] <= 0
BadBatch(a) == a.batch_size # <<>> /\ a.batch_size[1] <= 0
Empty(a) == Coll(a.src) = <<>> \/ Coll(a.tgt) = <<>>
BadMetric(a) == a.metric \notin {"str", "callable"}

Finish(a, how, res, m) ==
    /\ call' = a
    /\ outcome' = how
    /\ ret' = res
    /\ matches' = m
    /\ UNCHANGED <<da, db, ids, embs, tieOrder>>

\* raise ValueError: limit <= 0, or batch_size <= 0
RaiseValueError(a) ==
    /\ BadLimit(a) \/ BadBatch(a)
    /\ Finish(a, "ValueError", NoRet, matches)

\* The early return placed after the matches are cleared.
ReturnEmpty_Cleared(a) ==
    /\ ~BadLimit(a) /\ ~BadBatch(a)
    /\ Empty(a)
    /\ Finish(a, "returned", NoRet,
              [h \in DOMAIN matches |->
                  IF \E r \in DOMAIN Coll(a.src) : Coll(a.src)[r] = h
                  THEN <<>> ELSE matches[h]])

\* if not (lhv and rhv): return
ReturnEmpty(a) ==
    /\ ~BadLimit(a) /\ ~BadBatch(a)
    /\ Empty(a)
    /\ Finish(a, "returned", NoRet, matches)

\* raise TypeError: metric is neither a string nor callable
RaiseTypeError(a) ==
    /\ ~BadLimit(a) /\ ~BadBatch(a) /\ ~Empty(a)
    /\ BadMetric(a)
    /\ Finish(a, "TypeError", NoRet, matches)

\* lhv._match(...) and the assembling loop
MatchInMemory(a) ==
    /\ ~BadLimit(a) /\ ~BadBatch(a) /\ ~Empty(a) /\ ~BadMetric(a)
    /\ a.batch_size = <<>>
    /\ LET lhv == Coll(a.src)
           rhv == Coll(a.tgt)
           x_mat == Embeddings(lhv)
           y_mat == Embeddings(rhv)
           _limit == EffLimit(a, rhv)
           res == _match(x_mat, y_mat, _limit, a.normalization)
       IN Finish(a, "returned", res, Assemble(lhv, rhv, res, a, matches, 1))

\* lhv._match_online(...) and the assembling loop
MatchOnline(a) ==
    /\ ~BadLimit(a) /\ ~BadBatch(a) /\ ~Empty(a) /\ ~BadMetric(a)
    /\ a.batch_size # <<>>
    /\ LET lhv == Coll(a.src)
           rhv == Coll(a.tgt)
           x_mat == Embeddings(lhv)
           y_mat == Embeddings(rhv)
           _limit == EffLimit(a, rhv)
           res == _match_online(x_mat, y_mat, _limit, a.normalization,
                                a.batch_size[1], tieOrder)
       IN Finish(a, "returned", res, Assemble(lhv, rhv, res, a, matches, 1))

match(a) ==
    \/ RaiseValueError(a)
    \/ ReturnEmpty(a)
    \/ RaiseTypeError(a)
    \/ MatchInMemory(a)
    \/ MatchOnline(a)

----------------------------------------------------------------------------
(* Inputs *)

Opt(S) == {<<>>} \cup {<<v>> : v \in S}

\* normalization: None, (0, 1) or (1, 0)
Ranges == {<<>>, <<0, 1>>, <<1, 0>>}

RECURSIVE Ascending(_)
Ascending(S) ==
    IF S = {} THEN <<>>
    ELSE LET lo == CHOOSE v \in S : \A w \in S : v <= w
         IN <<lo>> \o Ascending(S \ {lo})

\* Every assignment of ids to the handles, up to renaming of the ids.
IdAssignments(D) ==
    {f \in [D -> D] : \A h \in D : \/ f[h] = 1
                                   \/ \E g \in D : g < h /\ f[g] = f[h] - 1}

Fresh(D) ==
    /\ matches = [h \in D |-> <<>>]
    /\ call = <<>>
    /\ outcome = "none"
    /\ ret = NoRet
    /\ tieOrder \in {"low", "high"}

----------------------------------------------------------------------------
(* Spec: two Documents that A and B may share and whose ids may coincide;  *)
(* any number of plain calls between the arrays, then one call with        *)
(* arbitrary arguments on A, then that same call again.  Only the distance *)
(* between the two Documents matters, so the first one sits at 0.          *)

Docs == {1, 2}

Init ==
    /\ da \in {Ascending(S) : S \in SUBSET Docs}
    /\ db \in {Ascending(S) : S \in SUBSET Docs}
    /\ ids \in IdAssignments(Docs)
    /\ embs \in {e \in [Docs -> {0, MaxEmb}] : e[1] = 0}
    /\ Fresh(Docs)

\* An in-memory call with nothing but a limit, between any two arrays.
PlainArgs ==
    [src : {"A", "B"}, tgt : {"A", "B"}, metric : {"str"},
     limit : {<<MaxLimit>>}, normalization : {<<>>}, batch_size : {<<>>},
     exclude_self : {FALSE}, only_id : {FALSE}]

\* Every combination of the options, with a metric name and batches of up
\* to maxBatch Documents.
NamedArgs(targets, maxBatch) ==
    [src : {"A"}, tgt : targets, metric : {"str"},
     limit : Opt(0..MaxLimit), normalization : Ranges,
     batch_size : Opt(0..maxBatch), exclude_self : BOOLEAN, only_id : BOOLEAN]

\* A callable metric, or an object that is neither a name nor callable, with
\* every limit and batch_size.
OtherMetricArgs(targets, maxBatch) ==
    [src : {"A"}, tgt : targets, metric : {"callable", "int"},
     limit : Opt(0..MaxLimit), normalization : {<<>>},
     batch_size : Opt(0..maxBatch), exclude_self : {FALSE}, only_id : {FALSE}]

\* No array here holds more than the two Documents, so a batch of two is
\* already the whole target.
Args ==
    PlainArgs \cup NamedArgs({"A", "B"}, Cardinality(Docs))
              \cup OtherMetricArgs({"A", "B"}, Cardinality(Docs))

\* Only plain calls so far.
Open == outcome = "none" \/ call \in PlainArgs

Again == ~Open /\ match(call)

Next ==
    \/ Open /\ \E a \in Args : RaiseValueError(a)
    \/ Open /\ \E a \in Args : ReturnEmpty(a)
    \/ Open /\ \E a \in Args : RaiseTypeError(a)
    \/ Open /\ \E a \in Args : MatchInMemory(a)
    \/ Open /\ \E a \in Args : MatchOnline(a)
    \/ Again

Spec == Init /\ [][Next]_vars

----------------------------------------------------------------------------
(* SpecOne: one call of A.match(B) on fresh arrays with distinct ids.  A   *)
(* holds up to two Documents, each at 0 or MaxEmb; B holds up to MaxLen    *)
(* Documents anywhere in 0..MaxEmb.                                        *)

DocsOne == 1..(2 + MaxLen)

InitOne ==
    /\ \E n \in 0..2, m \in 0..MaxLen :
          /\ da = [j \in 1..n |-> j]
          /\ db = [j \in 1..m |-> 2 + j]
          /\ embs \in {e \in [DocsOne -> 0..MaxEmb] :
                          /\ \A h \in 1..2 : e[h] \in (IF h <= n THEN {0, MaxEmb} ELSE {0})
                          /\ \A h \in DocsOne : h > 2 + m => e[h] = 0}
    /\ ids = [h \in DocsOne |-> h]
    /\ Fresh(DocsOne)

ArgsOne ==
    {a \in NamedArgs({"B"}, MaxBatch) \cup OtherMetricArgs({"B"}, MaxBatch) : ~a.only_id}

NextOne ==
    \/ outcome = "none" /\ \E a \in ArgsOne : RaiseValueError(a)
    \/ outcome = "none" /\ \E a \in ArgsOne : ReturnEmpty(a)
    \/ outcome = "none" /\ \E a \in ArgsOne : RaiseTypeError(a)
    \/ outcome = "none" /\ \E a \in ArgsOne : MatchInMemory(a)
    \/ outcome = "none" /\ \E a \in ArgsOne : MatchOnline(a)

SpecOne == InitOne /\ [][NextOne]_vars

----------------------------------------------------------------------------
(* SpecSelf: one call of A.match(B) with exclude_self=True.  B holds up to *)
(* three Documents with distinct ids anywhere in 0..MaxEmb; A is empty or  *)
(* holds one Document, either one of B's or one outside B.  The matchers   *)
(* treat every source row on its own, so one source Document is enough.    *)

TargetsSelf == 1..3
OutsideSelf == 4
DocsSelf == TargetsSelf \cup {OutsideSelf}

InitSelf ==
    /\ \E m \in {0} \cup TargetsSelf :
          /\ db = [j \in 1..m |-> j]
          /\ da \in {<<>>, <<OutsideSelf>>} \cup {<<h>> : h \in 1..m}
          /\ embs \in {e \in [DocsSelf -> 0..MaxEmb] :
                          \A h \in DocsSelf :
                              (h > m /\ da # <<h>>) => e[h] = 0}
    /\ ids = [h \in DocsSelf |-> h]
    /\ Fresh(DocsSelf)

\* exclude_self with every limit, normalization and batch_size, under a
\* metric name or an object that is neither a name nor callable.
ArgsSelf ==
    [src : {"A"}, tgt : {"B"}, metric : {"str", "int"},
     limit : Opt(0..MaxLimit), normalization : Ranges,
     batch_size : Opt(0..MaxBatch), exclude_self : {TRUE}, only_id : {FALSE}]

NextSelf ==
    \/ outcome = "none" /\ \E a \in ArgsSelf : RaiseValueError(a)
    \/ outcome = "none" /\ \E a \in ArgsSelf : ReturnEmpty(a)
    \/ outcome = "none" /\ \E a \in ArgsSelf : RaiseTypeError(a)
    \/ outcome = "none" /\ \E a \in ArgsSelf : MatchInMemory(a)
    \/ outcome = "none" /\ \E a \in ArgsSelf : MatchOnline(a)

SpecSelf == InitSelf /\ [][NextSelf]_vars

----------------------------------------------------------------------------
(* Properties *)

\* The last call ran a matcher and rebuilt the matches of its source.
Matched == outcome = "returned" /\ Coll(call.src) # <<>> /\ Coll(call.tgt) # <<>>

Lhv == Coll(call.src)
Rhv == Coll(call.tgt)

Sources == {Lhv[r] : r \in DOMAIN Lhv}

Scores(q) == [j \in DOMAIN matches[q] |-> matches[q][j].score]

NonDecreasing(s) == \A j \in 1..(Len(s) - 1) : s[j] <= s[j + 1]
NonIncreasing(s) == \A j \in 1..(Len(s) - 1) : s[j] >= s[j + 1]
Increasing(s) == \A j \in 1..(Len(s) - 1) : s[j] < s[j + 1]

\* Distance from source Document q to the target at (1-based) position t.
DistTo(q, t) == IF embs[q] >= embs[Rhv[t]] THEN embs[q] - embs[Rhv[t]]
                ELSE embs[Rhv[t]] - embs[q]

\* matches[q] lists k distinct targets that are nearest to q, nearest first,
\* each scored with its distance to q.
NearestFirst(q, k) ==
    /\ Len(matches[q]) = k
    /\ NonDecreasing(Scores(q))
    /\ \E p \in [1..k -> DOMAIN Rhv] :
          /\ \A i, j \in 1..k : i # j => p[i] # p[j]
          /\ \A j \in 1..k : /\ matches[q][j].id = ids[Rhv[p[j]]]
                             /\ matches[q][j].emb = <<embs[Rhv[p[j]]]>>
                             /\ matches[q][j].score = DistTo(q, p[j])
          /\ \A t \in DOMAIN Rhv :
                (\A j \in 1..k : p[j] # t) =>
                    \A j \in 1..k : DistTo(q, t) >= matches[q][j].score

InMemoryPlain ==
    /\ Matched
    /\ call.batch_size = <<>> /\ call.normalization = <<>>
    /\ ~call.exclude_self /\ call.limit # <<>>

\* C1: after an in-memory match without normalization or exclude_self, with
\* limit L against m targets, every source Document's matches are the
\* min(L, m) nearest targets in ascending order of distance, each scored
\* with its distance.
C1_NearestInOrder ==
    InMemoryPlain =>
        \A q \in Sources : NearestFirst(q, Min2(call.limit[1], Len(Rhv)))

\* Two sources and two targets, limit 1: each source keeps a different
\* target and drops the farther one.
C1_Witness ==
    /\ InMemoryPlain
    /\ Len(Lhv) = 2 /\ Len(Rhv) = 2 /\ call.limit = <<1>>
    /\ matches[Lhv[1]][1].id # matches[Lhv[2]][1].id
    /\ \A q \in Sources : \E t \in DOMAIN Rhv : DistTo(q, t) > matches[q][1].score

\* C2 as stated: at most L matches per source Document and scores strictly
\* ascending, in both modes, for every exclude_self and normalization.
C2_StrictlyAscending ==
    (Matched /\ call.limit # <<>>) =>
        \A q \in Sources : /\ Len(matches[q]) <= call.limit[1]
                           /\ Increasing(Scores(q))

\* C2 amended: at most L matches per source Document; the scores never
\* decrease along the list (equal scores may be adjacent), except in
\* in-memory mode with the inverting normalization (1, 0), where they
\* never increase.
C2_AtMostLimitOrdered ==
    (Matched /\ call.limit # <<>>) =>
        \A q \in Sources :
            /\ Len(matches[q]) <= call.limit[1]
            /\ IF call.batch_size = <<>> /\ call.normalization = <<1, 0>>
               THEN NonIncreasing(Scores(q))
               ELSE NonDecreasing(Scores(q))

\* A batched, normalised call with exclude_self that fills the limit with
\* two equal scores.
C2_Witness ==
    /\ Matched
    /\ call.limit = <<2>> /\ call.batch_size # <<>> /\ call.exclude_self
    /\ call.normalization = <<0, 1>> /\ Len(Rhv) = 2
    /\ \E q \in Sources : /\ Len(matches[q]) = 2
                          /\ matches[q][1].score = matches[q][2].score

\* (dist, idx) rows agree up to the order of exactly tied distances: the
\* same distances, and each index names a different target at that distance.
AgreeUpToTies(o, i) ==
    \A r \in DOMAIN Lhv :
        /\ o.dist[r] = i.dist[r]
        /\ Len(o.idx[r]) = Len(i.idx[r])
        /\ \A j \in DOMAIN o.idx[r] :
              /\ o.idx[r][j] + 1 \in DOMAIN Rhv
              /\ DistTo(Lhv[r], o.idx[r][j] + 1) = o.dist[r][j]
              /\ \A t \in DOMAIN o.idx[r] : t # j => o.idx[r][t] # o.idx[r][j]

\* C3: for the same source, target and limit, without normalization, the
\* batched matcher returns what the in-memory matcher returns, up to the
\* order of exact ties, for every batch_size and every limit.
C3_OnlineAgreesWithInMemory ==
    (Matched /\ call.batch_size # <<>> /\ call.normalization = <<>>) =>
        AgreeUpToTies(ret, _match(Embeddings(Lhv), Embeddings(Rhv),
                                  EffLimit(call, Rhv), <<>>))

\* C4: after a match with exclude_self, no source Document's matches hold a
\* match with that Document's own id, in both modes, with or without only_id,
\* also when an array is matched against itself.
C4_NoSelfMatch ==
    (Matched /\ call.exclude_self) =>
        \A q \in Sources : \A j \in DOMAIN matches[q] : matches[q][j].id # ids[q]

\* A two-Document array matched against itself with exclude_self and only_id:
\* each Document ends with the other one as its match.
C4_Witness ==
    /\ Matched /\ call.exclude_self /\ call.only_id
    /\ call.src = "A" /\ call.tgt = "A" /\ Len(da) = 2
    /\ ids[da[1]] # ids[da[2]]
    /\ \A q \in Sources : Len(matches[q]) = 1

C6_SecondCallChangesNothing ==
    [][(outcome = "returned" /\ outcome' = "returned" /\ call' = call)
          => matches' = matches]_vars

\* The state a repeated call starts from and returns to: a two-Document
\* array matched against itself in batches, both match lists rebuilt.
C6_Witness ==
    /\ ~Open /\ Matched
    /\ call.src = "A" /\ call.tgt = "A" /\ Len(da) = 2
    /\ call.batch_size # <<>>
    /\ \A q \in Sources : matches[q] # <<>>

\* C7: with normalization (0, 1) every score of every match lies in [0, 1],
\* in both modes, for every limit, batch_size and target size.
C7_ScoresInUnitInterval ==
    (Matched /\ call.normalization = <<0, 1>>) =>
        \A q \in Sources : \A j \in DOMAIN matches[q] :
            0 <= matches[q][j].score /\ matches[q][j].score <= Scale

\* C8: with normalization (1, 0), in both modes, a target at the smallest
\* distance from a source Document is among its matches and no match of the
\* list has a higher score.
C8_NearestHasHighestScore ==
    (Matched /\ call.normalization = <<1, 0>>) =>
        \A q \in Sources :
            \E j \in DOMAIN matches[q] :
                /\ \E t \in DOMAIN Rhv :
                      /\ ids[Rhv[t]] = matches[q][j].id
                      /\ \A u \in DOMAIN Rhv : DistTo(q, t) <= DistTo(q, u)
                /\ \A i \in DOMAIN matches[q] :
                      matches[q][i].score <= matches[q][j].score

\* C9: a call with limit <= 0, batch_size <= 0 or a metric that is neither a
\* string nor callable raises, whatever the arrays hold, and leaves every
\* Document's matches as they were.
C9_InvalidArgumentsRejected ==
    [][(BadLimit(call') \/ BadBatch(call') \/ BadMetric(call'))
          => (outcome' \in {"ValueError", "TypeError"} /\ matches' = matches)]_vars

\* C10: a call with valid arguments on an empty source or target returns
\* without error and leaves every Document's matches as they were.
C10_EmptyIsNoOp ==
    [][(~BadLimit(call') /\ ~BadBatch(call') /\ ~BadMetric(call') /\ Empty(call'))
          => (outcome' = "returned" /\ matches' = matches)]_vars

\* A call against an empty target has returned and the source Documents
\* still hold the matches of an earlier call.
C10_Witness ==
    /\ outcome = "returned"
    /\ ~BadLimit(call) /\ ~BadBatch(call) /\ ~BadMetric(call)
    /\ Coll(call.src) # <<>> /\ Coll(call.tgt) = <<>>
    /\ \A r \in DOMAIN Coll(call.src) : matches[Coll(call.src)[r]] # <<>>

UniqueIds(arr) ==
    \A i, j \in DOMAIN arr : i # j => ids[arr[i]] # ids[arr[j]]

\* Positions of the targets whose id is not the id of source Document q.
NonSelfTargets(q) == {t \in DOMAIN Rhv : ids[Rhv[t]] # ids[q]}

\* Positions of the targets that matches[q] names.
Chosen(q) ==
    {t \in DOMAIN Rhv : \E j \in DOMAIN matches[q] : matches[q][j].id = ids[Rhv[t]]}

\* exclude_self with limit L against at least L + 1 targets of distinct ids.
SelfExcluded ==
    /\ Matched
    /\ call.exclude_self /\ call.limit # <<>>
    /\ UniqueIds(Rhv) /\ Len(Rhv) >= call.limit[1] + 1

====
